---- MODULE Spec2Model ----
(***************************************************************************)
(* Model of the Kraken step definitions in src/src/steps/more.ts.          *)
(*                                                                         *)
(* JavaScript strings are sequences of one-character strings, so that      *)
(* split, replace and includes are computed as the code computes them.     *)
(* A value that may be null is a record [null, str].  A step handler is a  *)
(* sequence of awaited driver calls; every call it issues is appended to   *)
(* trace, and the browser's side of each call (whether an element exists,  *)
(* whether a wait times out, what a read returns) is chosen by the         *)
(* environment.                                                            *)
(***************************************************************************)
EXTENDS Integers, Sequences, FiniteSets, TLC

VARIABLES step, args, chain, pc, trace, status, error,
          parentElement, targetExists, elapsed, poll, finalVal, fs,
          page, resolved

vars == <<step, args, chain, pc, trace, status, error,
          parentElement, targetExists, elapsed, poll, finalVal, fs,
          page, resolved>>

-----------------------------------------------------------------------------
(* Bounds *)

\* most elements of a page below its html root (SpecPage)
MaxNodes == 3

\* longest chain of non-root ancestors above the start element (closest alone)
MaxDepth == 2
\* longest chain of non-root ancestors in a page a step runs against
MaxStepDepth == 1
\* most elements a scoped $$ lookup returns
MaxMatches == 1

-----------------------------------------------------------------------------
(* JavaScript values *)

SP == " "
TAB == "\t"
DOT == "."

Null == [null |-> TRUE, str |-> <<>>]
Str(s) == [null |-> FALSE, str |-> s]

\* JS truthiness of a string-or-null value
Truthy(v) == ~v.null /\ v.str # <<>>

\* String.prototype.split(sep) for a one-character separator
RECURSIVE SplitFrom(_, _, _, _)
SplitFrom(s, sep, i, cur) ==
  IF i > Len(s) THEN <<cur>>
  ELSE IF s[i] = sep THEN <<cur>> \o SplitFrom(s, sep, i + 1, <<>>)
  ELSE SplitFrom(s, sep, i + 1, Append(cur, s[i]))

Split(s, sep) == SplitFrom(s, sep, 1, <<>>)

\* String.prototype.replace(ch, '') with a string pattern: first occurrence only
RECURSIVE ReplaceFirst(_, _)
ReplaceFirst(s, ch) ==
  IF s = <<>> THEN <<>>
  ELSE IF Head(s) = ch THEN Tail(s)
  ELSE <<Head(s)>> \o ReplaceFirst(Tail(s), ch)

\* Array.prototype.includes
ArrayIncludes(arr, x) == \E i \in 1..Len(arr) : arr[i] = x

\* String.prototype.includes: sub occurs in s as a contiguous run
Includes(s, sub) ==
  \E i \in 1..(Len(s) + 1) :
    /\ i + Len(sub) - 1 <= Len(s)
    /\ SubSeq(s, i, i + Len(sub) - 1) = sub

-----------------------------------------------------------------------------
(* closest, lines 15-25 *)

\* one entry of trace: a driver call (or a final comparison) the handler made
Call(op, on, node, timeout, arg) ==
  [op |-> op, on |-> on, node |-> node, timeout |-> timeout, arg |-> arg]

\* line 19: classAttr && classAttr.split(' ').includes(selector.replace('.', ''))
MatchesClass(classAttr, selector) ==
  /\ Truthy(classAttr)
  /\ ArrayIncludes(Split(classAttr.str, SP), ReplaceFirst(selector, DOT))

\* lines 17-23: the loop, with `parent` the i-th ancestor of the start element
\* (falsy once i is past the end of the chain); calls are the driver calls so far
RECURSIVE Walk(_, _, _, _)

\* the loop with the class test ahead of the tag test: the root's class is
\* read, and the root is returned when it matches
WalkClassFirst(ch, i, selector, calls) ==
  IF i > Len(ch) THEN [ret |-> 0, calls |-> calls]
  ELSE LET c1 == Append(calls, Call("getAttribute", "ancestor", i, 0, <<"class">>)) IN
    IF MatchesClass(ch[i].class, selector) THEN [ret |-> i, calls |-> c1]
    ELSE LET c2 == Append(c1, Call("getTagName", "ancestor", i, 0, <<>>)) IN
      IF ch[i].tag = "html" THEN [ret |-> 0, calls |-> c2]
      ELSE Walk(ch, i + 1, selector,
                Append(c2, Call("$", "ancestor", i, 0, <<"..">>)))

Walk(ch, i, selector, calls) ==
  IF i > Len(ch) THEN [ret |-> 0, calls |-> calls]
  ELSE LET c1 == Append(calls, Call("getTagName", "ancestor", i, 0, <<>>)) IN
    IF ch[i].tag = "html" THEN [ret |-> 0, calls |-> c1]
    ELSE LET c2 == Append(c1, Call("getAttribute", "ancestor", i, 0, <<"class">>)) IN
      IF MatchesClass(ch[i].class, selector) THEN [ret |-> i, calls |-> c2]
      ELSE Walk(ch, i + 1, selector,
                Append(c2, Call("$", "ancestor", i, 0, <<"..">>)))

\* closest walking the chain a second time when the first walk found nothing
closestRetrying(ch, selector) ==
  LET first == Walk(ch, 1, selector, <<Call("$", "start", 0, 0, <<"..">>)>>) IN
    IF first.ret # 0 THEN first
    ELSE Walk(ch, 1, selector, Append(first.calls, Call("$", "start", 0, 0, <<"..">>)))

\* closest(element, selector): ret is the index in the chain of the ancestor
\* returned, 0 for null
closest(ch, selector) ==
  Walk(ch, 1, selector, <<Call("$", "start", 0, 0, <<"..">>)>>)

-----------------------------------------------------------------------------
(* Pages: the ancestors of the start element, nearest first.  A page is a  *)
(* run of non-root elements, closed by the html root unless the start      *)
(* element is detached.                                                    *)

Node(tag, class) == [tag |-> tag, class |-> class]

ClassAttrs ==
  { Null, Str(<<>>), Str(<<SP>>), Str(<<TAB>>), Str(<<"c">>), Str(<<"d">>),
    Str(<<"d", SP, "c">>), Str(<<"d", TAB, "c">>), Str(<<"d", "c">>) }

RootClassAttrs == { Null, Str(<<"c">>) }

ParentSelectors ==
  { <<DOT, "c">>, <<"c">>, <<DOT>>, <<DOT, "d">>, <<"d", DOT, "c">> }

RECURSIVE Runs(_, _)
Runs(S, n) ==
  IF n = 0 THEN { <<>> }
  ELSE LET shorter == Runs(S, n - 1) IN
    shorter \cup { <<x>> \o r : x \in S, r \in { q \in shorter : Len(q) = n - 1 } }

Chains(attrs, rootAttrs, depth) ==
  LET divs == Runs({ Node("div", a) : a \in attrs }, depth) IN
    divs \cup { d \o <<Node("html", a)>> : d \in divs, a \in rootAttrs }

-----------------------------------------------------------------------------
(* State shared by the specifications *)

NoArgs ==
  [selector |-> <<>>, parentSelector |-> <<>>, childSelector |-> <<>>,
   text |-> <<>>, attributeName |-> <<>>, keyName |-> "",
   featureLocation |-> <<>>, version |-> Null]

NoError == [name |-> "none", type |-> "none", msg |-> <<>>]

Idle ==
  /\ trace = <<>>
  /\ status = "running"
  /\ error = NoError
  /\ parentElement = -1
  /\ targetExists = FALSE
  /\ elapsed = 0
  /\ poll = [state |-> "none", ticks |-> 0, seen |-> <<>>]
  /\ finalVal = Null

-----------------------------------------------------------------------------
(* SpecClosest: closest applied to every page and selector within bounds *)

InitClosest ==
  /\ step = "closest"
  /\ pc = "closest"
  /\ chain \in Chains(ClassAttrs, RootClassAttrs, MaxDepth)
  /\ \E ps \in ParentSelectors : args = [NoArgs EXCEPT !.parentSelector = ps]
  /\ fs = {}
  /\ page = <<>>
  /\ resolved = 0
  /\ Idle

ClosestCall ==
  /\ step = "closest"
  /\ pc = "closest"
  /\ LET r == closest(chain, args.parentSelector) IN
       /\ parentElement' = r.ret
       /\ trace' = r.calls
  /\ pc' = "done"
  /\ status' = "passed"
  /\ UNCHANGED <<page, resolved, fs, step, args, chain, error, targetExists, elapsed, poll, finalVal>>

NextClosest == ClosestCall

SpecClosest == InitClosest /\ [][NextClosest]_vars

-----------------------------------------------------------------------------
(* The step handlers: tables *)

Steps ==
  { "press", "url",
    "click", "clickP", "clickPC",
    "clear", "clearP", "clearPC",
    "enter", "enterP", "enterPC",
    "see", "seeP", "seePC", "seeAttr", "screenshot" }

\* how the phrase scopes its target: "none" (document-wide lookup),
\* "parent" (in closest parent) or "child" (in closest parent ... with child)
Scope(s) ==
  IF s \in { "clickP", "clearP", "enterP", "seeP" } THEN "parent"
  ELSE IF s \in { "clickPC", "clearPC", "enterPC", "seePC" } THEN "child"
  ELSE "none"

Family(s) ==
  IF s \in { "click", "clickP", "clickPC" } THEN "click"
  ELSE IF s \in { "clear", "clearP", "clearPC" } THEN "clear"
  ELSE IF s \in { "enter", "enterP", "enterPC" } THEN "enter"
  ELSE IF s \in { "see", "seeP", "seePC" } THEN "see"
  ELSE s

\* the first statement of the handler
StartPc(s) ==
  IF s = "press" THEN "press"
  ELSE IF s = "screenshot" THEN "screenshot"
  ELSE IF s = "url" THEN "waitUntil"
  ELSE "lookup"

\* the statement that follows the one that yields the target element
AfterLocate(s) ==
  IF Family(s) \in { "see", "seeAttr" } THEN "waitUntil"
  ELSE IF s = "enterPC" THEN "setValue"
  ELSE "waitDisplayed"

\* the statement that follows element.click()
AfterClick(s) == IF Family(s) = "click" THEN "done" ELSE "selectAll"

\* AfterBackspace with the clear steps typing as the enter steps do
AfterBackspaceAlwaysTypes(s) == "keysText"

\* the statement that follows keys("Backspace")
AfterBackspace(s) == IF Family(s) = "clear" THEN "done" ELSE "keysText"

\* the selector of the element the ancestor walk starts from
StartSelector(s, a) == IF Scope(s) = "child" THEN a.childSelector ELSE a.selector

DisplayTimeoutMs == 5000
ChildDisplayTimeoutMs == 10000
ClickableTimeoutMs == 5000
PollTimeoutMs == 10000

\* what one evaluation of the polled predicate can cost, in milliseconds
TickCosts == { 2500, 5000 }

-----------------------------------------------------------------------------
(* Messages: template literals, as the concatenation of their parts *)

AncestorNotFoundMsg(parentSelector, fromSelector) ==
  <<"No se encontró el padre \"">> \o parentSelector \o <<"\" desde \"">>
    \o fromSelector \o <<"\"">>

ScopedNotFoundMsg(selector, parentSelector) ==
  <<"No se encontró el elemento \"">> \o selector \o <<"\" dentro del padre \"">>
    \o parentSelector \o <<"\"">>

UnsupportedKeyMsg(keyName) ==
  <<"Tecla \"", keyName, "\" no está soportada.">>

TimeoutMsg(s, a) ==
  IF s = "url" THEN
    <<"La URL no cambió a \"">> \o a.text \o <<"\" después de ", "10", " segundos">>
  ELSE IF s = "seeAttr" THEN
    <<"El valor \"">> \o a.text \o <<"\" no apareció en el atributo \"">>
      \o a.attributeName \o <<"\" del elemento \"">> \o a.selector \o <<"\"">>
  ELSE
    <<"El texto \"">> \o a.text \o <<"\" no apareció dentro del elemento \"">>
      \o a.selector \o <<"\"">>

\* a value interpolated into a template literal
Interpolate(v) == IF v.null THEN <<"null">> ELSE v.str

FinalMsg(s, a, v) ==
  IF s = "url" THEN
    <<"Expected values to be strictly equal:">> \o Interpolate(v) \o <<" !== ">> \o a.text
  ELSE IF s = "seeAttr" THEN
    <<"Se esperaba que el atributo \"">> \o a.attributeName \o <<"\" contuviera \"">>
      \o a.text \o <<"\" pero fue \"">> \o Interpolate(v) \o <<"\"">>
  ELSE
    <<"No se encontró el texto \"">> \o a.text \o <<"\" en el elemento">>

Failure(name, type, msg) == [name |-> name, type |-> type, msg |-> msg]

-----------------------------------------------------------------------------
(* I press key, lines 51-70 *)

keyMap ==
  [k \in { "Enter", "Esc", "Escape", "Tab", "ArrowDown", "ArrowUp" } |->
     CASE k = "Enter" -> "uE007"
       [] k = "Esc" -> "uE00C"
       [] k = "Escape" -> "uE00C"
       [] k = "Tab" -> "uE004"
       [] k = "ArrowDown" -> "uE015"
       [] k = "ArrowUp" -> "uE013"]

\* property names every object literal inherits from Object.prototype
ObjectPrototypeProps == { "toString", "constructor", "valueOf", "hasOwnProperty" }

\* line 63, keyMap[keyName]: an own property, an inherited one, or undefined
KeyLookup(keyName) ==
  IF keyName \in DOMAIN keyMap THEN [kind |-> "string", val |-> keyMap[keyName]]
  ELSE IF keyName \in ObjectPrototypeProps THEN [kind |-> "function", val |-> keyName]
  ELSE [kind |-> "undefined", val |-> ""]

\* line 64, !keyCode
KeyCodeFalsy(keyCode) == keyCode.kind = "undefined"

-----------------------------------------------------------------------------
(* find, lines 34-40: n is the length of element.$$(selector);              *)
(* the result is the index of the child returned, 0 for null                *)

find(n) == IF n > 0 THEN 1 ELSE 0

-----------------------------------------------------------------------------
(* The polled predicates and the final assertions *)

\* lines 110, 289, 361: whether waitUntil sees a truthy result
Predicate(s, v, expected) ==
  IF s = "url" THEN ~v.null /\ v.str = expected
  ELSE IF s = "seeAttr" THEN Truthy(v) /\ Includes(v.str, expected)
  ELSE Includes(v.str, expected)

\* FinalCheck with the final assertion left out: the poll's word is taken
FinalCheckTrustsPoll(s, a, v) == NoError

\* lines 117, 297, 369: the failure the final assertion raises, NoError if none
FinalCheck(s, a, v) ==
  IF s = "url" THEN
    IF ~v.null /\ v.str = a.text THEN NoError
    ELSE Failure("FinalAssertionMismatch", "AssertionError", FinalMsg(s, a, v))
  ELSE IF v.null THEN
    Failure("TypeError", "TypeError",
            <<"Cannot read properties of null (reading 'includes')">>)
  ELSE IF Includes(v.str, a.text) THEN NoError
  ELSE Failure("FinalAssertionMismatch", "AssertionError", FinalMsg(s, a, v))

\* AfterWaitUntil with the rejection swallowed: the handler goes on after a timeout
AfterWaitUntilSwallowed(ok) == "reread"

\* lines 108-116: await waitUntil(...) returns on success and throws on timeout
AfterWaitUntil(ok) == IF ok THEN "reread" ELSE "throw"

\* the name of the read a verification step observes its value with
ReadOp(s) ==
  IF s = "url" THEN "getUrl" ELSE IF s = "seeAttr" THEN "getAttribute" ELSE "getText"

Read(s, a) ==
  IF s = "url" THEN Call("getUrl", "driver", 0, 0, <<>>)
  ELSE IF s = "seeAttr" THEN Call("getAttribute", "element", 0, 0, a.attributeName)
  ELSE Call("getText", "element", 0, 0, <<>>)

-----------------------------------------------------------------------------
(* The step handlers: one action per awaited call, together with the       *)
(* synchronous statements that follow it                                   *)

\* Throw with the exception caught and recorded: the handler returns normally
ThrowCaught(e) == /\ status' = "passed" /\ error' = e /\ pc' = "done"

\* an exception leaves the handler: nothing catches it
Throw(e) == /\ status' = "failed" /\ error' = e /\ pc' = "done"

\* control moves to statement l; the handler returns when l is "done"
Goto(l) ==
  /\ pc' = l
  /\ status' = IF l = "done" THEN "passed" ELSE status
  /\ UNCHANGED error

Running(l) == step \in Steps /\ status = "running" /\ pc = l

\* lines 51-70
PressKey ==
  /\ Running("press")
  /\ LET keyCode == KeyLookup(args.keyName) IN
       IF KeyCodeFalsy(keyCode)
       THEN /\ Throw(Failure("UnsupportedKey", "Error", UnsupportedKeyMsg(args.keyName)))
            /\ UNCHANGED trace
       ELSE /\ trace' = Append(trace, Call("keys", "driver", 0, 0, <<keyCode.val>>))
            /\ \E ok \in BOOLEAN :
                 IF ok THEN Goto("done")
                 ELSE Throw(Failure("DriverError", "Error", <<"keys">>))
  /\ UNCHANGED <<page, resolved, fs, step, args, chain, parentElement, targetExists, elapsed, poll, finalVal>>

\* this.driver.$(...), the first statement of every step that names an element:
\* lines 128, 142, 159, 180, 193, 210, 233, 247, 266, 285, 306, 331, 357
Lookup ==
  /\ Running("lookup")
  /\ trace' = Append(trace, Call("$", "driver", 0, 0, StartSelector(step, args)))
  /\ IF Scope(step) = "none"
     THEN /\ targetExists' \in BOOLEAN
          /\ Goto(AfterLocate(step))
     ELSE /\ UNCHANGED targetExists
          /\ Goto(IF Scope(step) = "child" THEN "waitChild" ELSE "closest")
  /\ UNCHANGED <<page, resolved, fs, step, args, chain, parentElement, elapsed, poll, finalVal>>

\* childElement.waitForDisplayed({ timeout: 10000 }): lines 160, 211, 267, 332
WaitChild ==
  /\ Running("waitChild")
  /\ trace' = Append(trace,
       Call("waitForDisplayed", "childElement", 0, ChildDisplayTimeoutMs, <<>>))
  /\ \E ok \in BOOLEAN :
       IF ok THEN Goto("closest")
       ELSE Throw(Failure("DisplayTimeout", "Error", <<"waitForDisplayed">>))
  /\ UNCHANGED <<page, resolved, fs, step, args, chain, parentElement, targetExists, elapsed, poll, finalVal>>

\* Closest with the assert.ok left out: a null ancestor falls through to the
\* lookup of the target
ClosestUnchecked ==
  /\ Running("closest")
  /\ LET r == closest(chain, args.parentSelector) IN
       /\ trace' = trace \o r.calls
       /\ parentElement' = r.ret
       /\ Goto(IF Scope(step) = "child" THEN "find" ELSE "scoped")
  /\ UNCHANGED <<page, resolved, fs, step, args, chain, targetExists, elapsed, poll, finalVal>>

\* closest(...) and the assert.ok(parentElement, ...) after it:
\* lines 143-144, 162-163, 194-195, 213-214, 248-249, 269-270, 307-308, 334-335
Closest ==
  /\ Running("closest")
  /\ LET r == closest(chain, args.parentSelector) IN
       /\ trace' = trace \o r.calls
       /\ parentElement' = r.ret
       /\ IF r.ret = 0
          THEN Throw(Failure("AncestorNotFound", "AssertionError",
                 AncestorNotFoundMsg(args.parentSelector, StartSelector(step, args))))
          ELSE Goto(IF Scope(step) = "child" THEN "find" ELSE "scoped")
  /\ UNCHANGED <<page, resolved, fs, step, args, chain, targetExists, elapsed, poll, finalVal>>

\* parentElement.$(selector): lines 145, 197, 251, 310.  The handle is used
\* unchecked; it names no element when the page no longer holds a match
\* inside the ancestor
Scoped ==
  /\ Running("scoped")
  /\ trace' = Append(trace, Call("$", "parentElement", parentElement, 0, args.selector))
  /\ targetExists' \in BOOLEAN
  /\ Goto(AfterLocate(step))
  /\ UNCHANGED <<page, resolved, fs, step, args, chain, parentElement, elapsed, poll, finalVal>>

\* find(parentElement, selector) and the assert.ok(element, ...) after it:
\* lines 165-166, 216-217, 272-273, 337-338
Find ==
  /\ Running("find")
  /\ trace' = Append(trace, Call("$$", "parentElement", parentElement, 0, args.selector))
  /\ \E n \in 0..MaxMatches :
       IF find(n) = 0
       THEN /\ Throw(Failure("ScopedElementNotFound", "AssertionError",
                   ScopedNotFoundMsg(args.selector, args.parentSelector)))
            /\ UNCHANGED targetExists
       ELSE /\ targetExists' = TRUE
            /\ Goto(AfterLocate(step))
  /\ UNCHANGED <<page, resolved, fs, step, args, chain, parentElement, elapsed, poll, finalVal>>

\* element.waitForDisplayed({ timeout: 5000 }): lines 129, 146, 168, 181, 198,
\* 219, 234, 252
WaitDisplayed ==
  /\ Running("waitDisplayed")
  /\ trace' = Append(trace,
       Call("waitForDisplayed", "element", 0, DisplayTimeoutMs, <<>>))
  /\ \E ok \in BOOLEAN :
       /\ ok => targetExists
       /\ IF ok THEN Goto(IF Family(step) = "click" THEN "waitClickable" ELSE "click")
          ELSE Throw(Failure("DisplayTimeout", "Error", <<"waitForDisplayed">>))
  /\ UNCHANGED <<page, resolved, fs, step, args, chain, parentElement, targetExists, elapsed, poll, finalVal>>

\* WaitClickable with the wait left out: the click follows the display wait
WaitClickableOmitted ==
  /\ Running("waitClickable")
  /\ Goto("click")
  /\ UNCHANGED <<page, resolved, fs, step, args, chain, trace, parentElement, targetExists, elapsed, poll, finalVal>>

\* element.waitForClickable({ timeout: 5000 }): lines 130, 147, 169
WaitClickable ==
  /\ Running("waitClickable")
  /\ trace' = Append(trace,
       Call("waitForClickable", "element", 0, ClickableTimeoutMs, <<>>))
  /\ \E ok \in BOOLEAN :
       IF ok THEN Goto("click")
       ELSE Throw(Failure("ClickableTimeout", "Error", <<"waitForClickable">>))
  /\ UNCHANGED <<page, resolved, fs, step, args, chain, parentElement, targetExists, elapsed, poll, finalVal>>

\* element.click(): lines 131, 148, 170, 182, 199, 220, 235, 253
Click ==
  /\ Running("click")
  /\ trace' = Append(trace, Call("click", "element", 0, 0, <<>>))
  /\ \E ok \in BOOLEAN :
       IF ok THEN Goto(AfterClick(step))
       ELSE Throw(Failure("DriverError", "Error", <<"click">>))
  /\ UNCHANGED <<page, resolved, fs, step, args, chain, parentElement, targetExists, elapsed, poll, finalVal>>

\* this.driver.keys(["Control", "a"]): lines 183, 200, 221, 236, 254
KeysSelectAll ==
  /\ Running("selectAll")
  /\ trace' = Append(trace, Call("keys", "driver", 0, 0, <<"Control", "a">>))
  /\ \E ok \in BOOLEAN :
       IF ok THEN Goto("backspace")
       ELSE Throw(Failure("DriverError", "Error", <<"keys">>))
  /\ UNCHANGED <<page, resolved, fs, step, args, chain, parentElement, targetExists, elapsed, poll, finalVal>>

\* this.driver.keys("Backspace"): lines 184, 201, 222, 237, 255
KeysBackspace ==
  /\ Running("backspace")
  /\ trace' = Append(trace, Call("keys", "driver", 0, 0, <<"Backspace">>))
  /\ \E ok \in BOOLEAN :
       IF ok THEN Goto(AfterBackspace(step))
       ELSE Throw(Failure("DriverError", "Error", <<"keys">>))
  /\ UNCHANGED <<page, resolved, fs, step, args, chain, parentElement, targetExists, elapsed, poll, finalVal>>

\* this.driver.keys(text): lines 238, 256
KeysText ==
  /\ Running("keysText")
  /\ trace' = Append(trace, Call("keys", "driver", 0, 0, args.text))
  /\ \E ok \in BOOLEAN :
       IF ok THEN Goto("done")
       ELSE Throw(Failure("DriverError", "Error", <<"keys">>))
  /\ UNCHANGED <<page, resolved, fs, step, args, chain, parentElement, targetExists, elapsed, poll, finalVal>>

\* inputElement.setValue(text): line 275
SetValue ==
  /\ Running("setValue")
  /\ trace' = Append(trace, Call("setValue", "element", 0, 0, args.text))
  /\ \E ok \in BOOLEAN :
       IF ok THEN Goto("done")
       ELSE Throw(Failure("DriverError", "Error", <<"setValue">>))
  /\ UNCHANGED <<page, resolved, fs, step, args, chain, parentElement, targetExists, elapsed, poll, finalVal>>

-----------------------------------------------------------------------------
(* The verification steps: waitUntil, then the re-read and final assertion *)

\* what a read of the observed signal can return while the step runs
Observations(s) ==
  IF s = "seeAttr"
  THEN { Null, Str(<<>>), Str(<<"S">>), Str(<<"x", "S">>) }
  ELSE { Str(<<>>), Str(<<"S">>), Str(<<"x", "S">>) }

\* the element the predicate reads from is there (the URL always is)
CanRead == step = "url" \/ targetExists

\* this.driver.waitUntil(..., { timeout: 10000, timeoutMsg }): lines 108, 287,
\* 312, 340, 359
WaitUntil ==
  /\ Running("waitUntil")
  /\ trace' = Append(trace, Call("waitUntil", "driver", 0, PollTimeoutMs, <<>>))
  /\ Goto("tick")
  /\ UNCHANGED <<page, resolved, fs, step, args, chain, parentElement, targetExists, elapsed, poll, finalVal>>

\* one evaluation of the predicate: lines 109-110, 288-289, 313-314, 341-342,
\* 360-361
PollTick ==
  /\ Running("tick")
  /\ CanRead
  /\ elapsed < PollTimeoutMs
  /\ trace' = Append(trace, Read(step, args))
  /\ \E v \in Observations(step), d \in TickCosts :
       IF Predicate(step, v, args.text)
       THEN /\ poll' = [state |-> "ok", ticks |-> poll.ticks + 1,
                              seen |-> Append(poll.seen, v)]
            /\ Goto(AfterWaitUntil(TRUE))
            /\ UNCHANGED elapsed
       ELSE /\ poll' = [poll EXCEPT !.ticks = @ + 1, !.seen = Append(@, v)]
            /\ elapsed' = elapsed + d
            /\ UNCHANGED <<pc, status, error>>
  /\ UNCHANGED <<page, resolved, fs, step, args, chain, parentElement, targetExists, finalVal>>

\* the budget elapsed with no truthy result: waitUntil rejects with timeoutMsg
PollTimeout ==
  /\ Running("tick")
  /\ CanRead
  /\ elapsed >= PollTimeoutMs
  /\ poll' = [poll EXCEPT !.state = "timeout"]
  /\ IF AfterWaitUntil(FALSE) = "throw"
     THEN Throw(Failure("PredicateTimeout", "Error", TimeoutMsg(step, args)))
     ELSE Goto(AfterWaitUntil(FALSE))
  /\ UNCHANGED <<page, resolved, fs, step, args, chain, trace, parentElement, targetExists, elapsed, finalVal>>

\* the predicate's read is made on a handle that names no element
PollReadFails ==
  /\ Running("tick")
  /\ ~CanRead
  /\ trace' = Append(trace, Read(step, args))
  /\ poll' = [poll EXCEPT !.state = "error"]
  /\ Throw(Failure("DriverError", "Error", <<ReadOp(step)>>))
  /\ UNCHANGED <<page, resolved, fs, step, args, chain, parentElement, targetExists, elapsed, finalVal>>

\* the re-read and the final assertion: lines 116-117, 295-297, 320-322,
\* 348-350, 367-369.  The "compare" entry is the evaluation of the comparison
\* (strictEqual, includes), which raises by itself when the value read is null
FinalRead ==
  /\ Running("reread")
  /\ \E v \in Observations(step) :
       /\ finalVal' = v
       /\ trace' = trace \o <<Read(step, args), Call("compare", "handler", 0, 0, <<>>)>>
       /\ LET e == FinalCheck(step, args, v) IN
            IF e = NoError THEN Goto("done") ELSE Throw(e)
  /\ UNCHANGED <<page, resolved, fs, step, args, chain, parentElement, targetExists, elapsed, poll>>

-----------------------------------------------------------------------------
(* I take a screenshot, lines 80-96.  A path is a string; fs is the set of  *)
(* directories that exist.                                                  *)

SLASH == "/"

\* path.basename(p): what follows the last separator
Basename(p) == LET parts == Split(p, SLASH) IN parts[Len(parts)]

\* path.dirname(p): what precedes the last separator, "." when there is none
Dirname(p) ==
  LET seps == { i \in DOMAIN p : p[i] = SLASH } IN
    IF seps = {} THEN <<DOT>>
    ELSE SubSeq(p, 1, (CHOOSE i \in seps : \A j \in seps : j <= i) - 1)

\* line 83: process.env.VERSION || "default"
Version(env) == IF Truthy(env) THEN env.str ELSE <<"default">>

\* line 84: path.basename(this.featureLocation).split(".")[0]
ScreenshotName(featureLocation) == Split(Basename(featureLocation), DOT)[1]

\* line 85: `screenshots/${version}/${screenshotName}.png`
NombreArchivo(a) ==
  <<"screenshots", SLASH>> \o Version(a.version) \o <<SLASH>>
    \o ScreenshotName(a.featureLocation) \o <<DOT, "png">>

\* line 86
DirPath(a) == Dirname(NombreArchivo(a))

\* line 89: fs.mkdirSync(dir, { recursive: true }) creates dir and every
\* missing directory above it
MkdirRecursive(dirs, dir) ==
  dirs \cup { SubSeq(dir, 1, i) : i \in { k \in DOMAIN dir :
                                         k = Len(dir) \/ dir[k + 1] = SLASH } }

\* lines 83-94
Screenshot ==
  /\ Running("screenshot")
  /\ LET dirPath == DirPath(args)
         exists == dirPath \in fs
         fsCalls == <<Call("existsSync", "fs", 0, 0, dirPath)>> \o
                    (IF exists THEN <<>> ELSE <<Call("mkdirSync", "fs", 0, 0, dirPath)>>)
     IN /\ fs' = IF exists THEN fs ELSE MkdirRecursive(fs, dirPath)
        /\ trace' = trace \o fsCalls
                       \o <<Call("saveScreenshot", "driver", 0, 0, NombreArchivo(args))>>
  /\ \E ok \in BOOLEAN :
       IF ok THEN Goto("done")
       ELSE Throw(Failure("DriverError", "Error", <<"saveScreenshot">>))
  /\ UNCHANGED <<page, resolved, step, args, chain, parentElement, targetExists, elapsed, poll, finalVal>>

FeatureLocations ==
  { <<"f", SLASH, "a", DOT, "f">>, <<"f", SLASH, "a", DOT, "b", DOT, "f">>, <<"a">> }

\* the VERSION environment variable: unset, empty or set
Versions == { Null, Str(<<>>), Str(<<"v">>) }

-----------------------------------------------------------------------------
(* Spec: every step handler, run once against every page and argument list *)

StepClassAttrs == { Null, Str(<<"c">>), Str(<<"d", SP, "c">>) }
TargetSelectors == { <<"#", "x">>, <<"#", "k">> }
ChildSelectors == { <<"#", "k">> }
StepParentSelectors == { <<DOT, "c">> }
Texts == { <<>>, <<"S">> }
AttributeNames == { <<"t">> }
KeyNames ==
  { "Enter", "Esc", "Escape", "Tab", "ArrowDown", "ArrowUp",
    "PageDown", "", "toString", "constructor" }

ArgsFor(s) ==
  IF s = "press" THEN { [NoArgs EXCEPT !.keyName = k] : k \in KeyNames }
  ELSE IF s = "url" THEN { [NoArgs EXCEPT !.text = t] : t \in { <<"S">> } }
  ELSE IF s = "screenshot" THEN
    { [NoArgs EXCEPT !.featureLocation = f, !.version = v] :
        f \in FeatureLocations, v \in Versions }
  ELSE
    { [selector |-> sel, parentSelector |-> ps, childSelector |-> cs,
       text |-> t, attributeName |-> an, keyName |-> "",
       featureLocation |-> <<>>, version |-> Null] :
        sel \in TargetSelectors,
        ps \in (IF Scope(s) = "none" THEN { <<>> } ELSE StepParentSelectors),
        cs \in (IF Scope(s) = "child" THEN ChildSelectors ELSE { <<>> }),
        t \in (IF Family(s) \in { "click", "clear" } THEN { <<>> } ELSE Texts),
        an \in (IF s = "seeAttr" THEN AttributeNames ELSE { <<>> }) }

Init ==
  /\ step \in Steps
  /\ pc = StartPc(step)
  /\ args \in ArgsFor(step)
  /\ chain \in (IF Scope(step) = "none" THEN { <<>> }
                ELSE Chains(StepClassAttrs, { Null }, MaxStepDepth))
  /\ fs \in (IF step = "screenshot"
             THEN { {}, { <<"screenshots">> }, MkdirRecursive({}, DirPath(args)) }
             ELSE { {} })
  /\ page = <<>>
  /\ resolved = 0
  /\ Idle

Next ==
  \/ PressKey
  \/ Screenshot
  \/ Lookup
  \/ WaitChild
  \/ Closest
  \/ Scoped
  \/ Find
  \/ WaitDisplayed
  \/ WaitClickable
  \/ Click
  \/ KeysSelectAll
  \/ KeysBackspace
  \/ KeysText
  \/ SetValue
  \/ WaitUntil
  \/ PollTick
  \/ PollTimeout
  \/ PollReadFails
  \/ FinalRead

Spec == Init /\ [][Next]_vars

-----------------------------------------------------------------------------
(* SpecPage: the steps that name one element, without a child argument, run *)
(* against whole pages.  A page is its elements in document order: page[1]  *)
(* is the html root, and every later element hangs below the element before *)
(* it or below one of that element's ancestors.  The page does not change   *)
(* while a step runs.                                                       *)

PageNode(parent, tag, class, matches) ==
  [parent |-> parent, tag |-> tag, class |-> class, matches |-> matches]

\* the elements reached from k by repeated $('..'), nearest first
RECURSIVE AncestorIds(_, _)
AncestorIds(pg, k) ==
  IF pg[k].parent = 0 THEN <<>>
  ELSE <<pg[k].parent>> \o AncestorIds(pg, pg[k].parent)

Range(f) == { f[i] : i \in DOMAIN f }

\* where the next element in document order can hang
OpenElements(pg) == { Len(pg) } \cup Range(AncestorIds(pg, Len(pg)))

PageClassAttrs == { Null, Str(<<"c">>) }

RECURSIVE Pages(_)
Pages(n) ==
  IF n = 0
  THEN { <<PageNode(0, "html", c, m)>> : c \in PageClassAttrs, m \in BOOLEAN }
  ELSE LET shorter == Pages(n - 1) IN
    shorter \cup
      UNION { { Append(p, PageNode(par, "div", c, m)) :
                  par \in OpenElements(p), c \in PageClassAttrs, m \in BOOLEAN } :
              p \in { q \in shorter : Len(q) = n } }

\* the chain closest walks from element k; a handle that names no element
\* (k = 0) has no parent
AncestorChain(pg, k) ==
  IF k = 0 THEN <<>>
  ELSE LET ids == AncestorIds(pg, k) IN
    [i \in 1..Len(ids) |-> Node(pg[ids[i]].tag, pg[ids[i]].class)]

\* the n-th of a set of elements in document order, 0 when there are fewer
NthOf(S, n) ==
  IF Cardinality(S) < n THEN 0
  ELSE CHOOSE k \in S : Cardinality({ j \in S : j <= k }) = n

\* a selector is a CSS selector, #x, or an XPath expression evaluated from
\* the node the search starts at, as the '..' of line 16 is: (.//x)[2] is the
\* second x below that node
XPathSecond == <<"(", DOT, "/", "/", "x", ")", "[", "2", "]">>

PageSelectors == { <<"#", "x">>, XPathSecond }

\* which of the elements its node test matches the selector takes
Position(selector) == IF selector = XPathSecond THEN 2 ELSE 1

\* the elements the selector's node test matches
Matching(pg) == { k \in DOMAIN pg : pg[k].matches }

Descendants(pg, root) ==
  { k \in DOMAIN pg : root \in Range(AncestorIds(pg, k)) }

\* this.driver.$(selector): the search starts at the document
DocumentLookup(pg, selector) == NthOf(Matching(pg), Position(selector))

\* a lookup inside root that returns the last match instead of the first
ElementLookupLast(pg, root, selector) ==
  LET inside == Matching(pg) \cap Descendants(pg, root) IN
    NthOf(inside, Cardinality(inside))

\* root.$(selector): the search starts at root and sees its descendants only
ElementLookup(pg, root, selector) ==
  NthOf(Matching(pg) \cap Descendants(pg, root), Position(selector))

PageSteps == { s \in Steps : Family(s) \in { "click", "clear", "enter", "see" }
                             /\ Scope(s) \in { "none", "parent" } }

\* lines 128, 180, 233, 285: const element = await this.driver.$(selector)
ResolveUnscoped ==
  /\ Running("resolve")
  /\ Scope(step) = "none"
  /\ trace' = Append(trace, Call("$", "driver", 0, 0, args.selector))
  /\ resolved' = DocumentLookup(page, args.selector)
  /\ Goto("act")
  /\ UNCHANGED <<page, fs, step, args, chain, parentElement, targetExists,
                 elapsed, poll, finalVal>>

\* lines 142-145, 193-197, 247-251, 306-310: the base element, its closest
\* ancestor, the assert.ok and the lookup inside the ancestor
ResolveScoped ==
  /\ Running("resolve")
  /\ Scope(step) = "parent"
  /\ LET baseElement == DocumentLookup(page, args.selector)
         r == closest(AncestorChain(page, baseElement), args.parentSelector)
         lookup == <<Call("$", "driver", 0, 0, args.selector)>> \o r.calls
     IN /\ chain' = AncestorChain(page, baseElement)
        /\ parentElement' = r.ret
        /\ IF r.ret = 0
           THEN /\ trace' = trace \o lookup
                /\ Throw(Failure("AncestorNotFound", "AssertionError",
                     AncestorNotFoundMsg(args.parentSelector, args.selector)))
                /\ UNCHANGED resolved
           ELSE LET root == AncestorIds(page, baseElement)[r.ret] IN
                /\ trace' = trace \o lookup
                     \o <<Call("$", "parentElement", root, 0, args.selector)>>
                /\ resolved' = ElementLookup(page, root, args.selector)
                /\ Goto("act")
  /\ UNCHANGED <<page, fs, step, args, targetExists, elapsed, poll, finalVal>>

\* the rest of the handler: the waits and the click, keys, setValue or reads
\* on the element resolved; they fail when the handle names no element
ActOnElement ==
  /\ Running("act")
  /\ trace' = Append(trace, Call(Family(step), "element", resolved, 0, <<>>))
  /\ \E ok \in BOOLEAN :
       /\ ok => resolved # 0
       /\ IF ok THEN Goto("done")
          ELSE Throw(Failure("DriverError", "Error", <<Family(step)>>))
  /\ UNCHANGED <<page, resolved, fs, step, args, chain, parentElement,
                 targetExists, elapsed, poll, finalVal>>

InitPage ==
  /\ step \in PageSteps
  /\ pc = "resolve"
  /\ \E sel \in PageSelectors, ps \in StepParentSelectors :
       args = [NoArgs EXCEPT !.selector = sel,
                 !.parentSelector = IF Scope(step) = "none" THEN <<>> ELSE ps]
  /\ page \in Pages(MaxNodes)
  /\ chain = <<>>
  /\ resolved = 0
  /\ fs = {}
  /\ Idle

NextPage ==
  \/ ResolveUnscoped
  \/ ResolveScoped
  \/ ActOnElement

SpecPage == InitPage /\ [][NextPage]_vars

-----------------------------------------------------------------------------
(* Vocabulary of the properties *)

ActionSteps == { s \in Steps : Family(s) \in { "click", "clear", "enter" } }
VerificationSteps == { "url", "see", "seeP", "seePC", "seeAttr" }
ScopedSteps == { s \in Steps : Scope(s) # "none" }

Indices(P(_)) == { i \in DOMAIN trace : P(trace[i]) }

OnTarget(c) == c.on = "element"
IsActing(c) == c.op \in { "click", "keys", "setValue" }
IsWalk(c) == c.on \in { "start", "ancestor" }
IsObservation(c) == c = Read(step, args)
IsComparison(c) == c.op = "compare"

\* the condition a verification step expects of the observed value
Satisfies(s, v, expected) ==
  IF s = "url" THEN ~v.null /\ v.str = expected
  ELSE ~v.null /\ Includes(v.str, expected)

Whitespace == { SP, TAB, "\n" }

\* the class tokens of an attribute value: its maximal runs of non-whitespace
ClassTokens(v) ==
  IF v.null THEN {}
  ELSE { SubSeq(v.str, i, j) : <<i, j>> \in
           { p \in (1..Len(v.str)) \X (1..Len(v.str)) :
               /\ p[1] <= p[2]
               /\ \A k \in p[1]..p[2] : v.str[k] \notin Whitespace
               /\ (p[1] = 1 \/ v.str[p[1] - 1] \in Whitespace)
               /\ (p[2] = Len(v.str) \/ v.str[p[2] + 1] \in Whitespace) } }

\* the class a selector names: the selector without its leading dot
ClassName(selector) ==
  IF selector # <<>> /\ Head(selector) = DOT THEN Tail(selector) ELSE selector

\* empty, absent or made of whitespace only
Blank(v) == v.null \/ \A k \in 1..Len(v.str) : v.str[k] \in Whitespace

\* the nearest ancestor below the root whose class tokens hold the class, 0 if none
NearestMatching(ch, selector) ==
  LET below == { i \in 1..Len(ch) : \A j \in 1..i : ch[j].tag # "html" }
      hits == { i \in below : ClassName(selector) \in ClassTokens(ch[i].class) }
  IN IF hits = {} THEN 0 ELSE CHOOSE i \in hits : \A j \in hits : i <= j

NamesDuration(msg) == Includes(msg, <<"10">>) \/ Includes(msg, <<"10000">>)

-----------------------------------------------------------------------------
(* Properties *)

\* C1: in every action step, a click, keys or setValue call is issued only
\* after a waitForDisplayed on the target element has succeeded earlier in the
\* step, and in the click variants a click only after a waitForClickable on
\* the target as well.
C1_WaitsBeforeActing ==
  step \in ActionSteps =>
    \A i \in Indices(IsActing) :
      /\ \E j \in 1..(i - 1) :
           trace[j].op = "waitForDisplayed" /\ OnTarget(trace[j])
      /\ (Family(step) = "click" /\ trace[i].op = "click") =>
           \E j \in 1..(i - 1) :
             trace[j].op = "waitForClickable" /\ OnTarget(trace[j])

\* C2: closest returns the nearest ancestor below the document root whose
\* class token list contains the selector's class name, and null when there is
\* none before the root or before the chain ends.
C2_ReturnsNearestMatching ==
  (step = "closest" /\ pc = "done") =>
    parentElement = NearestMatching(chain, args.parentSelector)

\* C3: in every closest-parent step whose ancestor resolution returns null,
\* the step has failed with the ancestor-not-found assertion, the message holds
\* the parent selector and the selector the walk started from, and the trace
\* holds nothing after the walk's own calls: no lookup of the target, no wait,
\* no poll, no action.
C3_AncestorNotFoundFailsFast ==
  (step \in ScopedSteps /\ parentElement = 0) =>
    /\ status = "failed"
    /\ error.name = "AncestorNotFound"
    /\ error.type = "AssertionError"
    /\ Includes(error.msg, args.parentSelector)
    /\ Includes(error.msg, StartSelector(step, args))
    /\ \A i \in Indices(IsWalk) : \A j \in i..Len(trace) : IsWalk(trace[j])
    /\ \A i \in DOMAIN trace :
         trace[i].on \notin { "element", "parentElement" } /\ trace[i].op # "waitUntil"

C3_Witness ==
  /\ step \in ScopedSteps
  /\ parentElement = 0
  /\ status = "failed"
  /\ Scope(step) = "child"
  /\ args.selector # args.childSelector
  /\ Len(chain) > 0

\* C4: in every verification step whose poll succeeded, the finished handler
\* has made exactly one read after the poll's own reads, followed by exactly
\* one final comparison; and a verification step passes only if the poll
\* succeeded and the value of that last read satisfies the expectation.
C4_FinalCheckDecides ==
  step \in VerificationSteps =>
    /\ (poll.state = "ok" /\ pc = "done") =>
         /\ Cardinality(Indices(IsObservation)) = poll.ticks + 1
         /\ Cardinality(Indices(IsComparison)) = 1
         /\ IsComparison(trace[Len(trace)])
         /\ IsObservation(trace[Len(trace) - 1])
    /\ status = "passed" =>
         /\ poll.state = "ok"
         /\ Satisfies(step, finalVal, args.text)

C4_Witness ==
  /\ step \in VerificationSteps
  /\ poll.state = "ok"
  /\ poll.ticks >= 2
  /\ pc = "done"
  /\ status = "failed"
  /\ ~Satisfies(step, finalVal, args.text)

\* C5: when the poll succeeded and the re-read value no longer satisfies the
\* expectation (an attribute gone null included), the step fails with the
\* final-assertion mismatch, an AssertionError, and with nothing else.
C5_RegressionIsAssertionMismatch ==
  (step \in VerificationSteps /\ poll.state = "ok" /\ pc = "done"
     /\ ~Satisfies(step, finalVal, args.text)) =>
    /\ status = "failed"
    /\ error.name = "FinalAssertionMismatch"
    /\ error.type = "AssertionError"

\* C6: in every verification step whose predicate was false at every tick
\* until the 10000 ms budget elapsed, the step has failed with the poll
\* timeout, and no read beyond the poll's own and no final comparison was made.
C6_TimeoutSkipsFinalCheck ==
  (step \in VerificationSteps /\ poll.state = "timeout") =>
    /\ status = "failed"
    /\ error.name = "PredicateTimeout"
    /\ elapsed >= PollTimeoutMs
    /\ poll.ticks >= 1
    /\ Cardinality(Indices(IsObservation)) = poll.ticks
    /\ Indices(IsComparison) = {}

C6_Witness ==
  /\ step = "seePC"
  /\ poll.state = "timeout"
  /\ status = "failed"
  /\ poll.ticks >= 2

\* C7: the poll-timeout message of every verification step names the expected
\* value, the selector or URL under test, and the timeout duration.
C7_TimeoutMsgNamesAllThree ==
  (step \in VerificationSteps /\ error.name = "PredicateTimeout") =>
    /\ Includes(error.msg, args.text)
    /\ Includes(error.msg, IF step = "url" THEN args.text ELSE args.selector)
    /\ NamesDuration(error.msg)

\* C8: in every step that resolved an ancestor and whose lookup inside it
\* matched nothing, the step has failed with the scoped-element-not-found
\* assertion naming the target and parent selectors, and no wait, poll or
\* action on the target was attempted.
C8_ScopedNotFoundFailsFast ==
  (step \in ScopedSteps /\ parentElement > 0 /\ ~targetExists
     /\ \E i \in DOMAIN trace : trace[i].on = "parentElement") =>
    /\ status = "failed"
    /\ error.name = "ScopedElementNotFound"
    /\ Includes(error.msg, args.selector)
    /\ Includes(error.msg, args.parentSelector)
    /\ \A i \in DOMAIN trace : ~OnTarget(trace[i]) /\ trace[i].op # "waitUntil"

\* C9: 'I press key' with a name outside Enter, Esc, Escape, Tab, ArrowDown,
\* ArrowUp fails with the unsupported-key error and issues no driver call; with
\* a name in that set it issues exactly one keys call carrying the name's code,
\* Esc and Escape sharing one code.
C9_OnlyMappedKeysArePressed ==
  (step = "press" /\ pc = "done") =>
    IF args.keyName \in { "Enter", "Esc", "Escape", "Tab", "ArrowDown", "ArrowUp" }
    THEN /\ trace = <<Call("keys", "driver", 0, 0, <<keyMap[args.keyName]>>)>>
         /\ error.name # "UnsupportedKey"
         /\ keyMap["Esc"] = keyMap["Escape"]
    ELSE /\ status = "failed"
         /\ error.name = "UnsupportedKey"
         /\ trace = <<>>

\* C10: closest never takes an ancestor whose class attribute is empty,
\* absent or whitespace-only as a match, whatever the non-empty selector.
C10_BlankClassNeverMatches ==
  (step = "closest" /\ pc = "done" /\ parentElement > 0) =>
    ~Blank(chain[parentElement].class)


\* C11: an ancestor that closest inspects is taken as the match exactly when
\* the selector's class name (the selector without a leading dot, any other
\* dot kept) is one of the whitespace-separated tokens of its class attribute,
\* tabs and newlines separating as spaces do.
C11_MatchIsTokenMembership ==
  (step = "closest" /\ pc = "done") =>
    \A i \in DOMAIN trace :
      trace[i].op = "getAttribute" =>
        (parentElement = trace[i].node <=>
           ClassName(args.parentSelector) \in ClassTokens(chain[trace[i].node].class))


\* C12: in every verification step, a poll tick whose observed value
\* satisfies the expectation is the poll's last tick: the poll succeeds at
\* that tick, the first one included, with budget left; and when the value
\* still satisfies the expectation at the re-read, the step passes.
C12_PollSucceedsAtFirstSatisfyingTick ==
  step \in VerificationSteps =>
    /\ \A k \in DOMAIN poll.seen :
         Satisfies(step, poll.seen[k], args.text) =>
           /\ poll.state = "ok"
           /\ k = poll.ticks
           /\ elapsed < PollTimeoutMs
    /\ (poll.state = "ok" /\ pc = "done" /\ Satisfies(step, finalVal, args.text)) =>
         status = "passed"


\* the calls made on the target element, in order
RECURSIVE TargetCalls(_)
TargetCalls(t) ==
  IF t = <<>> THEN <<>>
  ELSE IF OnTarget(Head(t)) THEN <<Head(t)>> \o TargetCalls(Tail(t))
  ELSE TargetCalls(Tail(t))

\* C13: a click variant that passes has issued on its target exactly
\* waitForDisplayed (5000), waitForClickable (5000) and click, in that order
\* and once each; when either wait failed no click was issued; and 'I click
\* element "#x" in closest parent ".c"' with #x directly inside a div of class
\* c resolves the ancestor to that div, looks #x up inside it and, when it
\* passes, has clicked exactly once.
C13_ClickSequence ==
  Family(step) = "click" =>
    /\ status = "passed" =>
         TargetCalls(trace) =
           << Call("waitForDisplayed", "element", 0, 5000, <<>>),
              Call("waitForClickable", "element", 0, 5000, <<>>),
              Call("click", "element", 0, 0, <<>>) >>
    /\ error.name \in { "DisplayTimeout", "ClickableTimeout" } =>
         \A i \in DOMAIN trace : trace[i].op # "click"
    /\ (step = "clickP" /\ chain # <<>> /\ chain[1] = Node("div", Str(<<"c">>))
          /\ pc \notin { "lookup", "closest" }) =>
         /\ parentElement = 1
         /\ status # "failed" \/ error.name # "AncestorNotFound"
         /\ pc # "scoped" =>
              \E i \in DOMAIN trace :
                trace[i] = Call("$", "parentElement", 1, 0, args.selector)
         /\ status = "passed" =>
              Cardinality({ i \in DOMAIN trace : trace[i].op = "click" }) = 1

C13_Witness ==
  /\ step = "clickP"
  /\ chain # <<>>
  /\ chain[1] = Node("div", Str(<<"c">>))
  /\ args.selector = <<"#", "x">>
  /\ status = "passed"


IsPrefix(a, b) == Len(a) <= Len(b) /\ a = SubSeq(b, 1, Len(a))

\* what the handler did once the display wait on its target was issued
AfterDisplayWait(t) ==
  LET w == { i \in DOMAIN t : t[i].op = "waitForDisplayed" /\ OnTarget(t[i]) }
  IN IF w = {} THEN <<>>
     ELSE SubSeq(t, (CHOOSE i \in w : \A j \in w : j <= i) + 1, Len(t))

RECURSIVE ActingCalls(_)
ActingCalls(t) ==
  IF t = <<>> THEN <<>>
  ELSE IF IsActing(Head(t)) THEN <<Head(t)>> \o ActingCalls(Tail(t))
  ELSE ActingCalls(Tail(t))

ClearSequence ==
  << Call("click", "element", 0, 0, <<>>),
     Call("keys", "driver", 0, 0, <<"Control", "a">>),
     Call("keys", "driver", 0, 0, <<"Backspace">>) >>

\* the calls the step is to make once its target is displayed
ExpectedActing(s, a) ==
  IF Family(s) = "clear" THEN ClearSequence
  ELSE IF s = "enterPC" THEN << Call("setValue", "element", 0, 0, a.text) >>
  ELSE ClearSequence \o << Call("keys", "driver", 0, 0, a.text) >>

\* C14: a clear variant issues, after the display wait on its target, click,
\* the select-all chord and the delete key in that order and nothing else; the
\* unscoped and closest-parent enter variants issue the same followed by one
\* keys call with the text; the with-child enter variant issues one setValue
\* with the text on the located element and no click or keys.  A run that
\* fails has issued a prefix of its sequence, a run that passes all of it.
C14_ClearAndEnterSequences ==
  Family(step) \in { "clear", "enter" } =>
    /\ IsPrefix(ActingCalls(trace), ExpectedActing(step, args))
    /\ status = "passed" => ActingCalls(trace) = ExpectedActing(step, args)
    /\ step # "enterPC" => AfterDisplayWait(trace) = ActingCalls(trace)
    /\ step = "enterPC" =>
         \A i \in DOMAIN trace : trace[i].op \notin { "click", "keys" }

C14_Witness ==
  /\ step = "enterP"
  /\ status = "passed"
  /\ args.text = <<"S">>


\* C15: no step handler recovers from a failure.  Every step of a handler is
\* taken from a running state in which nothing has failed, so a failed step
\* issues no further call; and a step in which a call, lookup, wait, poll or
\* assertion fails ends the handler in the failed state with that failure.
C15_FailureEndsTheStep ==
  [][ /\ status = "running"
      /\ error = NoError
      /\ (error' # NoError <=> status' = "failed")
      /\ status' = "failed" => pc' = "done" ]_vars

C15_Witness ==
  /\ step = "clearPC"
  /\ status = "failed"
  /\ error.name = "DriverError"
  /\ trace[Len(trace)].op = "click"


\* a file name without its extension: cut at the last dot, unless the name
\* has none or only starts with one
StripExtension(name) ==
  LET dots == { i \in DOMAIN name : name[i] = DOT /\ i > 1 } IN
    IF dots = {} THEN name
    ELSE SubSeq(name, 1, (CHOOSE i \in dots : \A j \in dots : j <= i) - 1)

\* the directory and the file the screenshot step is to write
ExpectedDir(a) ==
  <<"screenshots", SLASH>> \o (IF Truthy(a.version) THEN a.version.str ELSE <<"default">>)

ExpectedFile(a) ==
  ExpectedDir(a) \o <<SLASH>> \o StripExtension(Basename(a.featureLocation))
    \o <<DOT, "png">>

\* C16: the screenshot step saves to screenshots/<VERSION or default>/<name>.png
\* with <name> the basename of the scenario's source file without its
\* extension, whatever the number of dots in it; it creates the directory
\* exactly when it is absent, and leaves the directories unchanged when it is
\* there already.
C16_ScreenshotPath ==
  /\ [](step = "screenshot" =>
         /\ \A i \in DOMAIN trace :
              trace[i].op = "saveScreenshot" => trace[i].arg = ExpectedFile(args)
         /\ pc = "done" =>
              /\ ExpectedDir(args) \in fs
              /\ \E i \in DOMAIN trace : trace[i].op = "saveScreenshot")
  /\ [][step = "screenshot" =>
         /\ fs' # fs <=> ExpectedDir(args) \notin fs
         /\ (\E i \in DOMAIN trace' : trace'[i].op = "mkdirSync")
              <=> ExpectedDir(args) \notin fs]_vars


\* the element the selector names when the whole document is searched: the
\* match that Position(selector) - 1 matches precede; 0 when there is none
InDocument(pg, selector) ==
  LET hits == { k \in DOMAIN pg :
                  /\ pg[k].matches
                  /\ Cardinality({ j \in 1..(k - 1) : pg[j].matches })
                       = Position(selector) - 1 }
  IN IF hits = {} THEN 0 ELSE CHOOSE k \in hits : TRUE

\* the selector is evaluated from the node the search starts at
RootRelative(selector) == selector # <<>> /\ Head(selector) \in { "(", DOT }

\* the elements the step has waited on, acted on or read
ActedOn(t) == { t[i].node : i \in { j \in DOMAIN t : t[j].on = "element" } }

\* what C17 says of a step in a state
SameTargetAsUnscoped ==
  (page # <<>> /\ step \in PageSteps /\ pc # "resolve") =>
    /\ Scope(step) = "none" => resolved = InDocument(page, args.selector)
    /\ (Scope(step) = "parent" /\ parentElement > 0) =>
         /\ resolved # 0
         /\ resolved = InDocument(page, args.selector)
         /\ ActedOn(trace) \subseteq { resolved }
    /\ (Scope(step) = "parent" /\ parentElement <= 0) =>
         /\ status = "failed"
         /\ error.name = "AncestorNotFound"
         /\ ActedOn(trace) = {}

BelowRoot(ch) == { i \in 1..Len(ch) : \A j \in 1..i : ch[j].tag # "html" }

\* C18: closest returns neither the start element nor the html root, whatever
\* their classes: on the start element it only looks up the parent, what it
\* returns is a proper ancestor below the root, it never reads the class of
\* the root, and a class that only the root carries gives null.
C18_NeverStartNeverRoot ==
  (step = "closest" /\ pc = "done") =>
    /\ parentElement \in {0} \cup BelowRoot(chain)
    /\ \A i \in DOMAIN trace :
         /\ trace[i].on = "start" => trace[i].op = "$" /\ i = 1
         /\ trace[i].op = "getAttribute" =>
              trace[i].on = "ancestor" /\ trace[i].node \in BelowRoot(chain)
    /\ (/\ \E i \in DOMAIN chain :
              /\ chain[i].tag = "html"
              /\ ClassName(args.parentSelector) \in ClassTokens(chain[i].class)
        /\ \A i \in BelowRoot(chain) :
              ClassName(args.parentSelector) \notin ClassTokens(chain[i].class))
         => parentElement = 0

\* the walk went past an ancestor to a root that carries the class, and
\* returned null
C18_Witness ==
  /\ step = "closest"
  /\ pc = "done"
  /\ Len(chain) >= 2
  /\ chain[Len(chain)].tag = "html"
  /\ ClassName(args.parentSelector) \in ClassTokens(chain[Len(chain)].class)
  /\ \E i \in DOMAIN trace : trace[i].op = "getTagName" /\ trace[i].node = Len(chain)
  /\ parentElement = 0

\* how often the walk made the call op on the i-th ancestor (0: the start)
CallCount(t, op, n) ==
  Cardinality({ i \in DOMAIN t : t[i].op = op /\ t[i].node = n })

\* C19: on every finite ancestor chain closest returns; it makes at most one
\* parent lookup, one tag read and one class read per ancestor below the root
\* (and one parent lookup on the start element), visits the ancestors in
\* order without coming back to one, and touches nothing above the ancestor
\* it returns.
C19_WalkIsBounded ==
  /\ (step = "closest" /\ pc = "closest") => ENABLED ClosestCall
  /\ (step = "closest" /\ pc = "done") =>
       /\ \A n \in 0..Len(chain) : \A op \in { "$", "getTagName", "getAttribute" } :
            CallCount(trace, op, n) <= 1
       /\ \A i \in DOMAIN trace :
            /\ trace[i].node \in 0..Len(chain)
            /\ trace[i].op \in { "$", "getAttribute" } =>
                 trace[i].node \in {0} \cup BelowRoot(chain)
            /\ \A j \in i..Len(trace) : trace[i].node <= trace[j].node
            /\ parentElement > 0 => trace[i].node <= parentElement
       /\ Len(trace) <= 3 * Cardinality(BelowRoot(chain)) + 2

\* the walk stepped over one ancestor and returned the next, with a further
\* ancestor above it left untouched
C19_Witness ==
  /\ step = "closest"
  /\ pc = "done"
  /\ parentElement >= 2
  /\ parentElement < Len(chain)
  /\ \A i \in DOMAIN trace : trace[i].node <= parentElement

====
